---- MODULE Spec2Model ----
(***************************************************************************)
(* Model of src/app.py: the query normalizer (correct_spelling), the JSON  *)
(* relevance search (search_json), the answer synthesizer                  *)
(* (generate_answer_from_json), the hybrid orchestrator (generate_answer)  *)
(* and the three API routes.                                               *)
(*                                                                         *)
(* Python str values are sequences of one-character strings.  JSON nodes   *)
(* are tagged records: [t |-> "map", items |-> <<[k |-> key, v |-> node]>>]*)
(* (items in insertion order, as Python dicts iterate),                    *)
(* [t |-> "seq", items |-> <<node, ...>>], [t |-> "text", s |-> chars] and *)
(* [t |-> "int", n |-> Nat].  Scores are kept doubled so that the 0.5 per  *)
(* path separator stays an integer.                                        *)
(*                                                                         *)
(* Not modelled: JSON floats, booleans and null; texts holding a quote or  *)
(* a backslash (repr would escape them); request bodies whose message is   *)
(* neither a string nor an object with a text field; the static routes.    *)
(***************************************************************************)
EXTENDS Integers, Sequences, FiniteSets, TLC

VARIABLES
    pc,             \* "ready" before the operation under study has run, "done" after
    user_input,     \* SpecNorm: the string under normalisation
    corrected,      \* SpecNorm: correct_spelling(user_input)
    recorrected,    \* SpecNorm: correct_spelling(corrected)
    ubik_info,      \* the loaded JSON data
    query,          \* SpecSearch: the query given to generate_answer_from_json
    results,        \* SpecSearch: what search_json returned, in emission order
    ranking,        \* SpecSearch: indices into results in the order the sort leaves them
    top_matches,    \* SpecSearch: matches[:max_items] after the sort
    answer,         \* SpecSearch: what generate_answer_from_json returned
    route,          \* Spec: the route that handled the request
    raw,            \* Spec: the message text or question as received
    adapter,        \* Spec: how the generation service behaves during the request
    ga_calls,       \* Spec: calls of generate_answer made by the handler
    searched,       \* Spec: the queries handed to search_json, in order
    prompts,        \* Spec: the prompts handed to generate_content, in order
    response        \* Spec: the HTTP response

normVars == <<user_input, corrected, recorrected>>
searchVars == <<query, results, ranking, top_matches, answer>>
requestVars == <<route, raw, adapter, ga_calls, searched, prompts, response>>
vars == <<pc, normVars, ubik_info, searchVars, requestVars>>

NoResponse ==
    [status |-> 0, reply |-> <<>>, feedback |-> "", score |-> "",
     user_answer |-> <<>>, questions |-> <<>>]
NoAdapter == [kind |-> "unused", s |-> <<>>]
RequestIdle ==
    /\ route = "none"
    /\ raw = <<>>
    /\ adapter = NoAdapter
    /\ ga_calls = 0
    /\ searched = <<>>
    /\ prompts = <<>>
    /\ response = NoResponse

NormIdle == user_input = <<>> /\ corrected = <<>> /\ recorrected = <<>>
SearchIdle ==
    /\ query = <<>>
    /\ results = <<>>
    /\ ranking = <<>>
    /\ top_matches = <<>>
    /\ answer = [kind |-> "none", s |-> <<>>]

(***************************************************************************)
(* Python str primitives                                                   *)
(***************************************************************************)
\* str.lower() on the ASCII capitals; every other character maps to itself
UpperToLower ==
    "A" :> "a" @@ "B" :> "b" @@ "C" :> "c" @@ "D" :> "d" @@ "E" :> "e" @@
    "F" :> "f" @@ "G" :> "g" @@ "H" :> "h" @@ "I" :> "i" @@ "J" :> "j" @@
    "K" :> "k" @@ "L" :> "l" @@ "M" :> "m" @@ "N" :> "n" @@ "O" :> "o" @@
    "P" :> "p" @@ "Q" :> "q" @@ "R" :> "r" @@ "S" :> "s" @@ "T" :> "t" @@
    "U" :> "u" @@ "V" :> "v" @@ "W" :> "w" @@ "X" :> "x" @@ "Y" :> "y" @@
    "Z" :> "z"

LowerChar(c) == IF c \in DOMAIN UpperToLower THEN UpperToLower[c] ELSE c

\* str.lower()
Lower(s) == <<>> \o [i \in 1..Len(s) |-> LowerChar(s[i])]

\* s.startswith(p)
StartsWith(s, p) == Len(p) <= Len(s) /\ SubSeq(s, 1, Len(p)) = p

\* `sub in s`
Contains(s, sub) ==
    \E sv \in {s}, bv \in {sub} :
        \E i \in 0..(Len(sv) - Len(bv)) : \A j \in 1..Len(bv) : sv[i + j] = bv[j]

\* s[:n]
Take(s, n) == SubSeq(s, 1, IF Len(s) < n THEN Len(s) ELSE n)

\* str.replace(old, new) for non-empty old: leftmost non-overlapping
\* occurrences, scanning left to right
RECURSIVE Replace(_, _, _)
Replace(s, old, new) ==
    IF Len(s) < Len(old) THEN s
    ELSE IF SubSeq(s, 1, Len(old)) = old
         THEN new \o Replace(SubSeq(s, Len(old) + 1, Len(s)), old, new)
         ELSE <<s[1]>> \o Replace(Tail(s), old, new)

Digits == <<"0", "1", "2", "3", "4", "5", "6", "7", "8", "9">>

\* str(n) for a non-negative int
RECURSIVE IntStr(_)
IntStr(n) ==
    IF n < 10 THEN <<Digits[n + 1]>>
    ELSE IntStr(n \div 10) \o <<Digits[(n % 10) + 1]>>

\* sep.join(parts)
RECURSIVE Join(_, _)
Join(parts, sep) ==
    IF Len(parts) = 0 THEN <<>>
    ELSE IF Len(parts) = 1 THEN parts[1]
    ELSE parts[1] \o sep \o Join(Tail(parts), sep)

Whitespace == {" ", "\n", "\t"}

\* s.strip()
RECURSIVE LStrip(_)
LStrip(s) == IF s # <<>> /\ Head(s) \in Whitespace THEN LStrip(Tail(s)) ELSE s

RECURSIVE RStrip(_)
RStrip(s) ==
    IF s # <<>> /\ s[Len(s)] \in Whitespace
    THEN RStrip(SubSeq(s, 1, Len(s) - 1)) ELSE s

Strip(s) == RStrip(LStrip(s))

\* s.replace(c, "") for one character c
Remove(s, c) == SelectSeq(s, LAMBDA x : x # c)

\* s.split(): the maximal runs of non-whitespace characters
RECURSIVE Split(_)
Split(s) ==
    LET t == LStrip(s)
        ends == {i \in 1..Len(t) : t[i] \in Whitespace}
        stop == IF ends = {} THEN Len(t) + 1
                ELSE CHOOSE i \in ends : \A j \in ends : i <= j
    IN  IF t = <<>> THEN <<>>
        ELSE <<SubSeq(t, 1, stop - 1)>> \o Split(SubSeq(t, stop, Len(t)))

\* s.count(c)
Count(s, c) == Cardinality({i \in 1..Len(s) : s[i] = c})

(***************************************************************************)
(* JSON values as json.load builds them                                    *)
(***************************************************************************)
JText(s) == [t |-> "text", s |-> s, n |-> 0, items |-> <<>>]
JInt(n) == [t |-> "int", s |-> <<>>, n |-> n, items |-> <<>>]
JList(items) == [t |-> "seq", s |-> <<>>, n |-> 0, items |-> items]
JDict(items) == [t |-> "map", s |-> <<>>, n |-> 0, items |-> items]
KV(k, v) == [k |-> k, v |-> v]

\* `key in d`
HasKey(d, key) == \E i \in 1..Len(d.items) : d.items[i].k = key

\* d[key]
Get(d, key) == d.items[CHOOSE i \in 1..Len(d.items) : d.items[i].k = key].v

\* repr(obj) and str(obj): a str is quoted inside a container and bare at
\* the top; the texts used hold no quote and no backslash
RECURSIVE Repr(_)
RECURSIVE ReprItems(_, _)
ReprItems(items, isMap) ==
    Join([i \in 1..Len(items) |->
            IF isMap
            THEN <<"'">> \o items[i].k \o <<"'", ":", " ">> \o Repr(items[i].v)
            ELSE Repr(items[i])],
         <<",", " ">>)

Repr(obj) ==
    CASE obj.t = "text" -> <<"'">> \o obj.s \o <<"'">>
      [] obj.t = "int" -> IntStr(obj.n)
      [] obj.t = "seq" -> <<"[">> \o ReprItems(obj.items, FALSE) \o <<"]">>
      [] obj.t = "map" -> <<"{">> \o ReprItems(obj.items, TRUE) \o <<"}">>

Str(obj) == IF obj.t = "text" THEN obj.s ELSE Repr(obj)

(***************************************************************************)
(* Spell correction                                                        *)
(***************************************************************************)
\* a dictionary whose replacement text contains its own key
corrections_selfref ==
    << <<<<"u", "b", "e", "e", "k">>, <<"U", "B", "I", "K">>>>, <<<<"u", "b", "i", "i", "k">>, <<"U", "B", "I", "K">>>>, <<<<"y", "o", "u", "b", "i", "k">>, <<"U", "B", "I", "K">>>>,
       <<<<"u", "b", "i", "q", "u", "e">>, <<"U", "B", "I", "K">>>>, <<<<"y", "o", "g", "i", "c">>, <<"U", "B", "I", "K">>>>,
       <<<<"e", "t", "h", "i", "g", "l", "o">>, <<"E", "t", "h", "i", "G", "l", "o">>>>, <<<<"e", "t", "h", "i", " ", "g", "l", "o">>, <<"E", "t", "h", "i", "G", "l", "o">>>>,
       <<<<"e", "t", "h", "i", "g", "l", "o", "w">>, <<"E", "t", "h", "i", "G", "l", "o">>>>, <<<<"e", "t", "h", "i", "g", "l", "o", "o">>, <<"E", "t", "h", "i", "G", "l", "o">>>>,
       <<<<"s", "i", "s", "o", "n", "e", "x", "t">>, <<"S", "i", "s", "o", "N", "e", "x", "t">>>>, <<<<"t", "e", "h", "n", "o", "l", "o", "g", "y">>, <<"t", "e", "c", "h", "n", "o", "l", "o", "g", "y">>>>,
       <<<<"w", "a", "t">>, <<"w", "a", "t", "e", "r">>>>,
       <<<<"p", "r", "o", "d", "a", "c", "t", "s">>, <<"p", "r", "o", "d", "u", "c", "t", "s">>>>, <<<<"s", "o", "u", "l", "t", "i", "o", "n">>, <<"s", "o", "l", "u", "t", "i", "o", "n">>>> >>

\* the corrections dict, in insertion order
corrections ==
    << <<<<"u", "b", "e", "e", "k">>, <<"U", "B", "I", "K">>>>, <<<<"u", "b", "i", "i", "k">>, <<"U", "B", "I", "K">>>>, <<<<"y", "o", "u", "b", "i", "k">>, <<"U", "B", "I", "K">>>>,
       <<<<"u", "b", "i", "q", "u", "e">>, <<"U", "B", "I", "K">>>>, <<<<"y", "o", "g", "i", "c">>, <<"U", "B", "I", "K">>>>,
       <<<<"e", "t", "h", "i", "g", "l", "o">>, <<"E", "t", "h", "i", "G", "l", "o">>>>, <<<<"e", "t", "h", "i", " ", "g", "l", "o">>, <<"E", "t", "h", "i", "G", "l", "o">>>>,
       <<<<"e", "t", "h", "i", "g", "l", "o", "w">>, <<"E", "t", "h", "i", "G", "l", "o">>>>, <<<<"e", "t", "h", "i", "g", "l", "o", "o">>, <<"E", "t", "h", "i", "G", "l", "o">>>>,
       <<<<"s", "i", "s", "o", "n", "e", "x", "t">>, <<"S", "i", "s", "o", "N", "e", "x", "t">>>>, <<<<"t", "e", "h", "n", "o", "l", "o", "g", "y">>, <<"t", "e", "c", "h", "n", "o", "l", "o", "g", "y">>>>,
       <<<<"w", "a", "t">>, <<"w", "h", "a", "t">>>>,
       <<<<"p", "r", "o", "d", "a", "c", "t", "s">>, <<"p", "r", "o", "d", "u", "c", "t", "s">>>>, <<<<"s", "o", "u", "l", "t", "i", "o", "n">>, <<"s", "o", "l", "u", "t", "i", "o", "n">>>> >>

\* the loop of correct_spelling from entry i on
RECURSIVE ApplyCorrections(_, _)
ApplyCorrections(s, i) ==
    IF i > Len(corrections) THEN s
    ELSE ApplyCorrections(Replace(s, corrections[i][1], corrections[i][2]), i + 1)

correct_spelling(s) == ApplyCorrections(s, 1)

(***************************************************************************)
(* JSON search helper                                                      *)
(***************************************************************************)
\* the skip list of the dict branch
SkipDict == <<<<"a", "d", "d", "r", "e", "s", "s">>, <<"c", "o", "n", "t", "a", "c", "t">>, <<"n", "a", "m", "e">>, <<"i", "s", "b", "n">>, <<"p", "u", "b", "l", "i", "s", "h", "e", "r">>>>
\* the skip list of the scalar branch
SkipScalar == <<<<"a", "d", "d", "r", "e", "s", "s">>, <<"c", "o", "n", "t", "a", "c", "t">>>>
\* the keys whose dict-branch match gets priority 2
PriorityKeys == {<<"d", "e", "s", "c", "r", "i", "p", "t", "i", "o", "n">>, <<"e", "x", "a", "m", "p", "l", "e", "s">>, <<"k", "p", "i", "s">>, <<"t", "i", "t", "l", "e">>}

\* any(skip in path.lower() for skip in skips)
AnySkip(path, skips) ==
    \E i \in 1..Len(skips) : Contains(Lower(path), skips[i])

Match(path, value, priority) ==
    [path |-> path, value |-> value, priority |-> priority]

\* 'title' left out of the priority list
KeyPriority_notitle(k) == IF k \in PriorityKeys \ {<<"t", "i", "t", "l", "e">>} THEN 2 ELSE 1

\* the priority the dict branch gives a match on key k
KeyPriority(k) == IF k \in PriorityKeys THEN 2 ELSE 1

\* _search(obj, path): the matches it appends to results, in order
RECURSIVE _search(_, _, _)
RECURSIVE SearchDict(_, _, _, _)
RECURSIVE SearchList(_, _, _, _)

\* the loop over obj.items() from item i on
SearchDict(items, i, path, q) ==
    IF i > Len(items) THEN <<>>
    ELSE LET k == items[i].k
             v == items[i].v
         IN  IF AnySkip(path, SkipDict)
             THEN SearchDict(items, i + 1, path, q)
             ELSE (IF \/ Contains(Lower(k), Lower(q))
                      \/ Contains(Lower(Str(v)), Lower(q))
                   THEN <<Match(path \o k, v, KeyPriority(k))>>
                   ELSE <<>>)
                  \o _search(v, path \o k \o <<".">>, q)
                  \o SearchDict(items, i + 1, path, q)

\* the loop over enumerate(obj) from element i on (idx = i - 1)
SearchList(items, i, path, q) ==
    IF i > Len(items) THEN <<>>
    ELSE _search(items[i], path \o <<"[">> \o IntStr(i - 1) \o <<"]", ".">>, q)
         \o SearchList(items, i + 1, path, q)

_search(obj, path, q) ==
    CASE obj.t = "map" -> SearchDict(obj.items, 1, path, q)
      [] obj.t = "seq" -> SearchList(obj.items, 1, path, q)
      [] OTHER ->
            IF /\ Contains(Lower(Str(obj)), Lower(q))
               /\ ~AnySkip(path, SkipScalar)
            THEN <<Match(SubSeq(path, 1, Len(path) - 1), obj, 1)>>
            ELSE <<>>

search_json(data, q) == _search(data, <<>>, q)

(***************************************************************************)
(* Generate answer from JSON                                               *)
(***************************************************************************)
max_items == 3
DescLimit == 150
TitleDescLimit == 100
BulletLimit == 2

\* relevance_score(match), doubled
relevance_score(match, q) ==
    2 * match.priority
    + (IF Contains(Lower(Str(match.value)), Lower(q)) THEN 2 ELSE 0)
    + Count(match.path, ".")
    - (IF match.path = <<>> THEN 2 ELSE 0)

\* list.sort(key=..., reverse=True) as the order in which it leaves the
\* elements: indices by key descending, equal keys in their original order
\* an insertion that puts an element before the equal keys already placed
RECURSIVE InsertDesc_unstable(_, _, _)
InsertDesc_unstable(sorted, i, keys) ==
    IF sorted = <<>> THEN <<i>>
    ELSE IF keys[Head(sorted)] > keys[i]
         THEN <<Head(sorted)>> \o InsertDesc_unstable(Tail(sorted), i, keys)
         ELSE <<i>> \o sorted

RECURSIVE InsertDesc(_, _, _)
InsertDesc(sorted, i, keys) ==
    IF sorted = <<>> THEN <<i>>
    ELSE IF keys[Head(sorted)] >= keys[i]
         THEN <<Head(sorted)>> \o InsertDesc(Tail(sorted), i, keys)
         ELSE <<i>> \o sorted

RECURSIVE SortFrom(_, _, _)
SortFrom(sorted, i, keys) ==
    IF i > Len(keys) THEN sorted
    ELSE SortFrom(InsertDesc(sorted, i, keys), i + 1, keys)

SortOrder(keys) == SortFrom(<<>>, 1, keys)

\* matches after matches.sort(key=relevance_score, reverse=True)
Sorted(matches, q) ==
    LET keys == [i \in 1..Len(matches) |-> relevance_score(matches[i], q)]
        order == SortOrder(keys)
    IN  [i \in 1..Len(matches) |-> matches[order[i]]]

NoSummary == [kind |-> "skip", s |-> <<>>]
Summary(s) == [kind |-> "str", s |-> s]
Raises == [kind |-> "raise", s |-> <<>>]

\* "\n".join(f"- {x}" for x in seq[:2]) for a str (its characters) or a list
Bullets(obj) ==
    IF obj.t = "text"
    THEN Summary(Join([i \in 1..Len(Take(obj.s, BulletLimit)) |->
                          <<"-", " ">> \o <<obj.s[i]>>], <<"\n">>))
    ELSE IF obj.t = "seq"
    THEN Summary(Join([i \in 1..Len(Take(obj.items, BulletLimit)) |->
                          <<"-", " ">> \o Str(obj.items[i])], <<"\n">>))
    ELSE Raises   \* an int is not subscriptable, a dict takes no slice

\* the first key k with k.lower() == 'title', as a sequence of 0 or 1 keys
TitleKey(value) ==
    LET hits == {i \in 1..Len(value.items) : Lower(value.items[i].k) = <<"t", "i", "t", "l", "e">>}
    IN  IF hits = {} THEN <<>>
        ELSE <<value.items[CHOOSE i \in hits : \A j \in hits : i <= j].k>>

\* what one iteration of the loop over top_matches appends to summaries
Summarize(value) ==
    IF value.t = "map" THEN
        IF HasKey(value, <<"d", "e", "s", "c", "r", "i", "p", "t", "i", "o", "n">>) THEN
            LET d == Get(value, <<"d", "e", "s", "c", "r", "i", "p", "t", "i", "o", "n">>)
            IN  IF d.t # "text" THEN Raises  \* len() or the final join fails
                ELSE IF Len(d.s) > DescLimit
                THEN Summary(Take(d.s, DescLimit) \o <<".", ".", ".">>)
                ELSE Summary(d.s)
        ELSE IF HasKey(value, <<"e", "x", "a", "m", "p", "l", "e", "s">>) THEN Bullets(Get(value, <<"e", "x", "a", "m", "p", "l", "e", "s">>))
        ELSE IF HasKey(value, <<"k", "p", "i", "s">>) THEN Bullets(Get(value, <<"k", "p", "i", "s">>))
        ELSE IF TitleKey(value) # <<>> /\ HasKey(value, <<"d", "e", "s", "c", "r", "i", "p", "t", "i", "o", "n">>)
        THEN LET d == Get(value, <<"d", "e", "s", "c", "r", "i", "p", "t", "i", "o", "n">>)
                 head == Str(Get(value, TitleKey(value)[1])) \o <<":", " ">>
             IN  IF d.t = "text" THEN Summary(head \o Take(d.s, TitleDescLimit))
                 ELSE IF d.t = "seq"
                 THEN Summary(head \o Str(JList(Take(d.items, TitleDescLimit))))
                 ELSE Raises
        ELSE NoSummary
    ELSE IF value.t = "seq" THEN
        Summary(Join([i \in 1..Len(Take(value.items, BulletLimit)) |->
                         <<"-", " ">> \o Str(value.items[i])], <<"\n">>))
    ELSE Summary(Take(Str(value), DescLimit))

None == [kind |-> "none", s |-> <<>>]

\* the summaries loop and the final join over top_matches
BuildAnswer(top) ==
    LET parts == [i \in 1..Len(top) |-> Summarize(top[i].value)]
        kept == SelectSeq(parts, LAMBDA p : p.kind = "str")
    IN  IF \E i \in 1..Len(parts) : parts[i].kind = "raise" THEN Raises
        ELSE IF kept = <<>> THEN None
        ELSE Summary(Join([i \in 1..Len(kept) |-> kept[i].s], <<"\n">>))

\* generate_answer_from_json(query) over the loaded data
generate_answer_from_json(data, q) ==
    LET matches == search_json(data, q)
    IN  IF matches = <<>> THEN None
        ELSE BuildAnswer(Take(Sorted(matches, q), max_items))

(***************************************************************************)
(* Hybrid answer: JSON first, generation fallback                          *)
(***************************************************************************)
Apology == <<"I", " ", "c", "o", "u", "l", "d", " ", "n", "o", "t", " ", "f", "i", "n", "d", " ", "t", "h", "e", " ", "i", "n", "f", "o", "r", "m", "a", "t", "i", "o", "n", ".">>

\* the prompt built at lines 146-156: the query and the serialised data it embeds
AnswerPrompt(data, q) == [kind |-> "answer", query |-> q, context |-> data]

\* what a call of generate_answer does: its return value or the exception
\* leaving it, the queries it searched and the prompts it sent
Returned(reply, searchedQ, sent) ==
    [status |-> "ok", reply |-> reply, searched |-> searchedQ, prompts |-> sent]
Raised(searchedQ, sent) ==
    [status |-> "raise", reply |-> <<>>, searched |-> searchedQ, prompts |-> sent]

\* a fallback that hands back whatever the cleaned text is
Fallback_unchecked(outcome) ==
    IF outcome.kind = "text" THEN Remove(Strip(outcome.s), "*") ELSE Apology

\* the try block of generate_answer given how the service behaves:
\* "raise" (generate_content raises), "notext" (response.text raises) or
\* "text" (response.text is outcome.s)
Fallback(outcome) ==
    IF outcome.kind = "text"
    THEN LET reply == Remove(Strip(outcome.s), "*")
         IN  IF reply # <<>> THEN reply ELSE Apology
    ELSE Apology

\* a generate_answer that gives up without asking the service
generate_answer_nofallback(data, q, outcome) ==
    LET local == generate_answer_from_json(data, q)
    IN  IF local.kind = "raise" THEN Raised(<<q>>, <<>>)
        ELSE IF local.kind = "str" /\ local.s # <<>>
        THEN Returned(local.s, <<q>>, <<>>)
        ELSE Returned(Apology, <<q>>, <<>>)

\* generate_answer(query); the statements after line 163 are unreachable
generate_answer(data, q, outcome) ==
    LET local == generate_answer_from_json(data, q)
    IN  IF local.kind = "raise" THEN Raised(<<q>>, <<>>)
        ELSE IF local.kind = "str" /\ local.s # <<>>
        THEN Returned(local.s, <<q>>, <<>>)
        ELSE Returned(Fallback(outcome), <<q>>, <<AnswerPrompt(data, q)>>)

(***************************************************************************)
(* json.loads on the texts the question route is given: an array of        *)
(* double-quoted strings without escapes and of unsigned integers; any     *)
(* other text that starts with '[' is rejected here, so the outcomes drawn *)
(* hold no nested array, object, escape, sign, fraction or literal         *)
(***************************************************************************)
DigitSet == {Digits[i] : i \in 1..Len(Digits)}

\* the first position >= i holding no whitespace
RECURSIVE SkipWs(_, _)
SkipWs(t, i) ==
    IF i <= Len(t) /\ t[i] \in Whitespace THEN SkipWs(t, i + 1) ELSE i

\* the first position >= i holding no digit
RECURSIVE SkipDigits(_, _)
SkipDigits(t, i) ==
    IF i <= Len(t) /\ t[i] \in DigitSet THEN SkipDigits(t, i + 1) ELSE i

RECURSIVE DigitsValue(_)
DigitsValue(d) ==
    IF d = <<>> THEN 0
    ELSE 10 * DigitsValue(SubSeq(d, 1, Len(d) - 1))
         + (CHOOSE v \in 0..9 : Digits[v + 1] = d[Len(d)])

ParseFail == [ok |-> FALSE, items |-> <<>>]

\* one element starting at i: [ok, value, next]
ParseElem(t, i) ==
    IF i > Len(t) THEN [ok |-> FALSE, value |-> JInt(0), next |-> i]
    ELSE IF t[i] = "\"" THEN
        LET closers == {j \in (i + 1)..Len(t) : t[j] = "\""}
        IN  IF closers = {} THEN [ok |-> FALSE, value |-> JInt(0), next |-> i]
            ELSE LET j == CHOOSE c \in closers : \A d \in closers : c <= d
                 IN  [ok |-> TRUE, value |-> JText(SubSeq(t, i + 1, j - 1)),
                      next |-> j + 1]
    ELSE IF t[i] \in DigitSet THEN
        LET j == SkipDigits(t, i)
        IN  IF t[i] = "0" /\ j > i + 1
            THEN [ok |-> FALSE, value |-> JInt(0), next |-> i]
            ELSE [ok |-> TRUE, value |-> JInt(DigitsValue(SubSeq(t, i, j - 1))),
                  next |-> j]
    ELSE [ok |-> FALSE, value |-> JInt(0), next |-> i]

\* after '[' or ',': the elements from position i on, acc parsed so far
RECURSIVE ParseElems(_, _, _)
ParseElems(t, i, acc) ==
    LET e == ParseElem(t, SkipWs(t, i))
        k == SkipWs(t, e.next)
    IN  IF ~e.ok \/ k > Len(t) THEN ParseFail
        ELSE IF t[k] = "," THEN ParseElems(t, k + 1, Append(acc, e.value))
        ELSE IF t[k] = "]" /\ SkipWs(t, k + 1) > Len(t)
        THEN [ok |-> TRUE, items |-> Append(acc, e.value)]
        ELSE ParseFail

\* json.loads(t) for t starting with '['
json_loads(t) ==
    LET k == SkipWs(t, 2)
    IN  IF k <= Len(t) /\ t[k] = "]"
        THEN (IF SkipWs(t, k + 1) > Len(t)
              THEN [ok |-> TRUE, items |-> <<>>] ELSE ParseFail)
        ELSE ParseElems(t, 2, <<>>)

(***************************************************************************)
(* Routes                                                                  *)
(***************************************************************************)
QuestionLimit == 5

FallbackQuestions ==
    << JText(<<"H", "o", "w", " ", "d", "o", "e", "s", " ", "U", "B", "I", "K", " ", "S", "o", "l", "u", "t", "i", "o", "n", "s", " ", "f", "o", "s", "t", "e", "r", " ", "a", " ", "s", "u", "p", "p", "o", "r", "t", "i", "v", "e", " ", "c", "o", "m", "p", "a", "n", "y", " ", "c", "u", "l", "t", "u", "r", "e", "?">>),
       JText(<<"W", "h", "a", "t", " ", "a", "r", "e", " ", "t", "h", "e", " ", "c", "o", "r", "e", " ", "v", "a", "l", "u", "e", "s", " ", "o", "f", " ", "U", "B", "I", "K", " ", "S", "o", "l", "u", "t", "i", "o", "n", "s", "?">>),
       JText(<<"W", "h", "y", " ", "i", "s", " ", "i", "n", "n", "o", "v", "a", "t", "i", "o", "n", " ", "i", "m", "p", "o", "r", "t", "a", "n", "t", " ", "t", "o", " ", "U", "B", "I", "K", " ", "S", "o", "l", "u", "t", "i", "o", "n", "s", "'", " ", "m", "i", "s", "s", "i", "o", "n", "?">>),
       JText(<<"W", "h", "a", "t", " ", "r", "o", "l", "e", "s", " ", "d", "o", " ", "M", "e", "d", "i", "c", "a", "l", " ", "R", "e", "p", "r", "e", "s", "e", "n", "t", "a", "t", "i", "v", "e", "s", " ", "p", "l", "a", "y", " ", "a", "t", " ", "U", "B", "I", "K", " ", "S", "o", "l", "u", "t", "i", "o", "n", "s", "?">>),
       JText(<<"H", "o", "w", " ", "d", "o", "e", "s", " ", "U", "B", "I", "K", " ", "S", "o", "l", "u", "t", "i", "o", "n", "s", " ", "e", "n", "g", "a", "g", "e", " ", "w", "i", "t", "h", " ", "d", "e", "r", "m", "a", "t", "o", "l", "o", "g", "i", "s", "t", "s", "?">>) >>

QuestionsPrompt(data) == [kind |-> "questions", query |-> <<>>, context |-> data]

\* the list get_questions hands to jsonify
get_questions(data, outcome) ==
    IF outcome.kind # "text" THEN FallbackQuestions
    ELSE LET t == Strip(outcome.s)
         IN  IF StartsWith(t, <<"[">>)
             THEN (IF json_loads(t).ok
                   THEN Take(json_loads(t).items, QuestionLimit)
                   ELSE FallbackQuestions)
             ELSE Take(FallbackQuestions, QuestionLimit)

\* the score of evaluate_answer
Score(user_answer, correct_answer) ==
    IF \E i \in 1..Len(Split(user_answer)) :
          Contains(Lower(correct_answer), Lower(Split(user_answer)[i]))
    THEN "1.0" ELSE "0.0"

AcronymReply ==
    <<"U", "B", "I", "K", " ", "s", "t", "a", "n", "d", "s", " ", "f", "o", "r", ":", "\n", "-", " ", "U", " ", "=", " ", "U", "t", "s", "a", "v", " ", "K", "h", "a", "k", "k", "a", "r", "\n", "-", " ", "B", " ", "=", " ", "B", "h", "a", "v", "i", "n", "i", " ", "K", "h", "a", "k", "k", "a", "r", "\n", "-", " ", "I", " ", "=", " ", "I", "l", "e", "s", "h", " ", "K", "h", "a", "k", "h", "k", "h", "a", "r", "\n", "-", " ", "K", " ", "=", " ", "K", "h", "a", "k", "k", "a", "r">>
ClarifyReply == <<"P", "l", "e", "a", "s", "e", " ", "s", "p", "e", "c", "i", "f", "y", " ", "w", "h", "a", "t", " ", "y", "o", "u", " ", "w", "a", "n", "t", " ", "m", "o", "r", "e", " ", "d", "e", "t", "a", "i", "l", "s", " ", "a", "b", "o", "u", "t", ".">>
ContextWords == <<<<"a", "b", "o", "u", "t">>, <<"d", "e", "t", "a", "i", "l", "s">>, <<"i", "n", "f", "o", "r", "m", "a", "t", "i", "o", "n">>, <<"o", "n">>>>

\* lines 277 and 288: the two special cases of the chat route
IsFullForm(m) ==
    /\ Contains(Lower(m), <<"u", "b", "i", "k">>)
    /\ Contains(Lower(m), <<"f", "u", "l", "l", " ", "f", "o", "r", "m">>) \/ Contains(Lower(m), <<"m", "e", "a", "n", "i", "n", "g">>)
IsBareMore(m) ==
    /\ Contains(Lower(m), <<"m", "o", "r", "e">>)
    /\ ~\E i \in 1..Len(ContextWords) : Contains(Lower(m), Lower(ContextWords[i]))

\* what chatbot_reply does with the message text: the reply (or the
\* exception), and the generate_answer call it made, if any
ChatResult(status, reply, calls, g) ==
    [status |-> status, reply |-> reply, ga_calls |-> calls,
     searched |-> g.searched, prompts |-> g.prompts]
NoCall == Returned(<<>>, <<>>, <<>>)

\* a chat route that asks for clarification before it looks for the full form
chatbot_reply_morefirst(data, user_message, outcome) ==
    LET corrected_message == correct_spelling(user_message)
        g == generate_answer(data, corrected_message, outcome)
    IN  IF IsBareMore(corrected_message)
        THEN ChatResult("ok", ClarifyReply, 0, NoCall)
        ELSE IF IsFullForm(corrected_message)
        THEN ChatResult("ok", AcronymReply, 0, NoCall)
        ELSE ChatResult(g.status, g.reply, 1, g)

chatbot_reply(data, user_message, outcome) ==
    LET corrected_message == correct_spelling(user_message)
        g == generate_answer(data, corrected_message, outcome)
    IN  IF IsFullForm(corrected_message)
        THEN ChatResult("ok", AcronymReply, 0, NoCall)
        ELSE IF IsBareMore(corrected_message)
        THEN ChatResult("ok", ClarifyReply, 0, NoCall)
        ELSE ChatResult(g.status, g.reply, 1, g)

(***************************************************************************)
(* SpecNorm: strings assembled from fragments, then normalised twice       *)
(***************************************************************************)
MaxFrags == 2

\* misspellings, pieces of them that overlap one another, and replacements
Fragments ==
    { <<"w", "a", "t">>, <<"w", "a">>, <<"t">>, <<"w">>, <<"h">>, <<"w", "h", "a", "t">>, <<" ">>,
      <<"u", "b", "e", "e", "k">>, <<"u", "b", "i", "i", "k">>, <<"y", "o", "u", "b", "i", "k">>, <<"u", "b", "i", "q", "u", "e">>, <<"y", "o", "g", "i", "c">>, <<"u">>, <<"y">>,
      <<"e", "t", "h", "i", "g", "l", "o">>, <<"e", "t", "h", "i", " ", "g", "l", "o">>, <<"e", "t", "h", "i">>, <<"g", "l", "o">>, <<"o">>, <<"e">>,
      <<"s", "i", "s", "o", "n", "e", "x", "t">>, <<"s", "i", "s", "o", "n", "e", "x">>, <<"t", "e", "h", "n", "o", "l", "o", "g", "y">>, <<"e", "h", "n", "o", "l", "o", "g", "y">>, <<"s">>,
      <<"p", "r", "o", "d", "a", "c", "t", "s">>, <<"s", "o", "u", "l", "t", "i", "o", "n">>, <<"o", "u", "l", "t", "i", "o", "n">>, <<"U", "B", "I", "K">>, <<"W", "a", "t">> }

\* every concatenation of at most n fragments
RECURSIVE Inputs(_)
Inputs(n) ==
    IF n = 0 THEN {<<>>}
    ELSE Inputs(n - 1) \cup {s \o f : s \in Inputs(n - 1), f \in Fragments}

InitNorm ==
    /\ pc = "ready"
    /\ user_input \in Inputs(MaxFrags)
    /\ corrected = <<>>
    /\ recorrected = <<>>
    /\ ubik_info = JDict(<<>>)
    /\ SearchIdle
    /\ RequestIdle

\* correct_spelling applied to the text, then to its own output
Normalize ==
    /\ pc = "ready"
    /\ pc' = "done"
    /\ corrected' = correct_spelling(user_input)
    /\ recorrected' = correct_spelling(corrected')
    /\ UNCHANGED <<user_input, ubik_info, searchVars, requestVars>>

NextNorm == Normalize

SpecNorm == InitNorm /\ [][NextNorm]_vars

\* C8: correct_spelling is idempotent: normalising an already normalised
\* string leaves it unchanged.
C8_Idempotent == pc = "done" => recorrected = corrected

\* a chained case: the output of the sisonext rule completes "tehnology",
\* which the following rule rewrites
C8_Witness ==
    /\ pc = "done"
    /\ user_input = <<"s", "i", "s", "o", "n", "e", "x", "t", "e", "h", "n", "o", "l", "o", "g", "y">>
    /\ corrected = <<"S", "i", "s", "o", "N", "e", "x", "t", "e", "c", "h", "n", "o", "l", "o", "g", "y">>
    /\ recorrected = corrected

(***************************************************************************)
(* SpecSearch: generate_answer_from_json over small documents              *)
(***************************************************************************)
MaxKeys == 2

TopKeys == {<<"c", "o", "n", "t", "a", "c", "t">>, <<"d", "e", "s", "c", "r", "i", "p", "t", "i", "o", "n">>, <<"f", "a", "q">>}

Subtrees ==
    { JText(<<"1", "2", "3", " ", "M", "a", "i", "n", " ", "S", "t">>),
      JDict(<<KV(<<"a", "d", "d", "r", "e", "s", "s">>, JText(<<"1", "2", "3", " ", "M", "a", "i", "n", " ", "S", "t">>))>>),
      JList(<<JText(<<"M", "a", "i", "n", " ", "o", "f", "f", "i", "c", "e">>), JInt(123)>>),
      JDict(<<KV(<<"d", "e", "s", "c", "r", "i", "p", "t", "i", "o", "n">>, JText(<<"m", "a", "i", "n", " ", "p", "r", "o", "d", "u", "c", "t">>)),
              KV(<<"t", "i", "t", "l", "e">>, JText(<<"C", "a", "r", "e">>))>>),
      JDict(<<KV(<<"n", "a", "m", "e">>, JList(<<JText(<<"M", "a", "i", "n">>)>>))>>),
      JDict(<<KV(<<"k", "p", "i", "s">>, JList(<<JText(<<"c", "a", "r", "e">>), JText(<<"m", "a", "i", "n">>), JText(<<"x">>)>>))>>) }

Queries == {<<"M", "a", "i", "n">>, <<"c", "a", "r", "e">>, <<"t", "i", "t", "l", "e">>}

\* the item lists of dicts with at most n distinct top-level keys
RECURSIVE ItemLists(_)
ItemLists(n) ==
    IF n = 0 THEN {<<>>}
    ELSE ItemLists(n - 1) \cup
         {Append(items, KV(k, v)) :
            items \in {l \in ItemLists(n - 1) : Len(l) = n - 1},
            k \in TopKeys, v \in Subtrees}

DistinctKeys(items) ==
    \A i, j \in 1..Len(items) : items[i].k = items[j].k => i = j

\* documents whose root is no mapping
RootDocuments ==
    { JText(<<"M", "a", "i", "n", " ", "c", "a", "r", "e">>),
      JList(<<JText(<<"m", "a", "i", "n">>), JDict(<<KV(<<"t", "i", "t", "l", "e">>, JText(<<"C", "a", "r", "e">>))>>)>>) }

Documents ==
    {JDict(items) : items \in {l \in ItemLists(MaxKeys) : DistinctKeys(l)}}
    \cup RootDocuments

InitSearch ==
    /\ pc = "ready"
    /\ NormIdle
    /\ ubik_info \in Documents
    /\ query \in Queries
    /\ results = <<>>
    /\ ranking = <<>>
    /\ top_matches = <<>>
    /\ answer = None
    /\ RequestIdle

\* generate_answer_from_json(query), its intermediate values recorded
GenerateAnswerFromJson ==
    /\ pc = "ready"
    /\ pc' = "done"
    /\ results' = search_json(ubik_info, query)
    /\ ranking' = SortOrder([i \in 1..Len(results') |->
                                relevance_score(results'[i], query)])
    /\ top_matches' = Take(Sorted(results', query), max_items)
    /\ answer' = generate_answer_from_json(ubik_info, query)
    /\ UNCHANGED <<normVars, ubik_info, query, requestVars>>

NextSearch == GenerateAnswerFromJson

SpecSearch == InitSearch /\ [][NextSearch]_vars

\* s.endswith(p)
EndsWith(s, p) == Len(p) <= Len(s) /\ SubSeq(s, Len(s) - Len(p) + 1, Len(s)) = p

\* the path names a field whose key is description, examples, kpis or title
\* (the keys of the documents hold no '.')
EndsInPriorityKey(path) ==
    \E k \in PriorityKeys : path = k \/ EndsWith(path, <<".">> \o k)

\* C2: no match lies at or below a mapping key whose lowercase name
\* contains address, contact, name, isbn or publisher.
C2_NoExcludedMatch ==
    pc = "done" =>
        \A i \in 1..Len(results) : ~AnySkip(results[i].path, SkipDict)

\* C9 as stated: a match whose path ends in description, examples, kpis or
\* title has priority 2, every other match has priority 1.
C9_PriorityByKey ==
    pc = "done" =>
        \A i \in 1..Len(results) :
            results[i].priority =
                (IF EndsInPriorityKey(results[i].path) THEN 2 ELSE 1)

\* C9 amended: priorities are 1 or 2; priority 2 is given only to a field
\* whose key is description, examples, kpis or title; a priority-1 match on
\* such a field is the scalar branch's second emission of the field's text
\* or number, directly after the field's own priority-2 match.
C9_PriorityAmended ==
    pc = "done" =>
        \A i \in 1..Len(results) :
            /\ results[i].priority \in {1, 2}
            /\ results[i].priority = 2 => EndsInPriorityKey(results[i].path)
            /\ (EndsInPriorityKey(results[i].path) /\ results[i].priority = 1) =>
                  /\ results[i].value.t \in {"text", "int"}
                  /\ i > 1
                  /\ results[i - 1].path = results[i].path
                  /\ results[i - 1].value = results[i].value
                  /\ results[i - 1].priority = 2

\* a description field matched twice: priority 2, then priority 1
C9_Witness ==
    /\ pc = "done"
    /\ \E i \in 1..(Len(results) - 1) :
          /\ EndsWith(results[i].path, <<".", "d", "e", "s", "c", "r", "i", "p", "t", "i", "o", "n">>)
          /\ results[i].priority = 2
          /\ results[i + 1].path = results[i].path
          /\ results[i + 1].priority = 1
    /\ \E i \in 1..Len(results) :
          ~EndsInPriorityKey(results[i].path) /\ results[i].priority = 1

\* the score as the ranking rule states it, doubled
StatedScore(m, q) ==
    2 * m.priority
    + 2 * (IF Contains(Lower(Str(m.value)), Lower(q)) THEN 1 ELSE 0)
    + Cardinality({i \in 1..Len(m.path) : m.path[i] = "."})
    - 2 * (IF Len(m.path) = 0 THEN 1 ELSE 0)

ExampleM1 == Match(<<>>, JText(<<"z", "z", "z">>), 1)
ExampleM2 == Match(<<"a", ".", "b">>, JText(<<"a", " ", "q", "u", "e", "r", "y", " ", "h", "e", "r", "e">>), 2)
ExampleQuery == <<"q", "u", "e", "r", "y">>

\* C10: the answer is built from the first 3 matches in score-descending
\* order, equal scores in emission order; the priority-2, path "a.b",
\* value-hit match outranks the priority-1, empty-path, no-hit match.
C10_Ranking ==
    pc = "done" =>
        /\ Len(ranking) = Len(results)
        /\ {ranking[i] : i \in 1..Len(ranking)} = 1..Len(results)
        /\ \A i, j \in 1..Len(ranking) :
              i < j =>
                \/ StatedScore(results[ranking[i]], query)
                      > StatedScore(results[ranking[j]], query)
                \/ /\ StatedScore(results[ranking[i]], query)
                         = StatedScore(results[ranking[j]], query)
                   /\ ranking[i] < ranking[j]
        /\ Len(top_matches) = (IF Len(results) < 3 THEN Len(results) ELSE 3)
        /\ \A i \in 1..Len(top_matches) : top_matches[i] = results[ranking[i]]
        /\ SortOrder(<<relevance_score(ExampleM1, ExampleQuery),
                       relevance_score(ExampleM2, ExampleQuery)>>) = <<2, 1>>
        /\ relevance_score(ExampleM2, ExampleQuery)
              > relevance_score(ExampleM1, ExampleQuery)

\* more than 3 matches, the sort moved a later match to the front, two
\* matches tie, and the answer kept only 3
C10_Witness ==
    /\ pc = "done"
    /\ Len(results) > 3
    /\ Len(top_matches) = 3
    /\ ranking[1] > 1
    /\ \E i \in 1..(Len(ranking) - 1) :
          /\ relevance_score(results[ranking[i]], query)
                = relevance_score(results[ranking[i + 1]], query)
          /\ ranking[i] < ranking[i + 1]

(***************************************************************************)
(* Spec: one request to the API over a loaded document                     *)
(***************************************************************************)
LongRepeat == 40

RECURSIVE Repeat(_, _)
Repeat(s, n) == IF n = 0 THEN <<>> ELSE s \o Repeat(s, n - 1)

LoadedDocuments ==
    { JDict(<<KV(<<"c", "o", "n", "t", "a", "c", "t">>, JDict(<<KV(<<"a", "d", "d", "r", "e", "s", "s">>, JText(<<"1", "2", "3", " ", "M", "a", "i", "n", " ", "S", "t">>))>>)),
              KV(<<"f", "a", "q">>, JText(<<"w", "h", "a", "t", " ", "w", "e", " ", "d", "o">>))>>),
      JDict(<<KV(<<"p", "r", "o", "d", "u", "c", "t", "s">>,
                 JDict(<<KV(<<"d", "e", "s", "c", "r", "i", "p", "t", "i", "o", "n">>, JText(Repeat(<<"m", "a", "i", "n", " ">>, LongRepeat))),
                         KV(<<"t", "i", "t", "l", "e">>, JText(<<"C", "a", "r", "e">>))>>))>>),
      JDict(<<KV(<<"f", "a", "q">>, JList(<<JText(<<"M", "a", "i", "n", " ", "o", "f", "f", "i", "c", "e">>), JInt(123)>>)),
              KV(<<"t", "i", "t", "l", "e">>, JText(<<"w", "h", "a", "t", " ", "w", "e", " ", "d", "o">>))>>),
      JDict(<<KV(<<"f", "a", "q">>, JDict(<<KV(<<"d", "e", "s", "c", "r", "i", "p", "t", "i", "o", "n">>, JInt(5))>>)),
              KV(<<"e", "x", "a", "m", "p", "l", "e", "s">>, JList(<<>>))>>) }

\* message texts and quiz questions
Messages ==
    { <<"W", "h", "a", "t", " ", "i", "s", " ", "u", "b", "i", "k", " ", "f", "u", "l", "l", " ", "f", "o", "r", "m">>, <<"u", "b", "e", "e", "k", " ", "m", "e", "a", "n", "i", "n", "g", " ", "m", "o", "r", "e">>, <<"U", "B", "I", "K", " ", "M", "e", "a", "n", "i", "n", "g">>,
      <<"t", "e", "l", "l", " ", "m", "e", " ", "m", "o", "r", "e">>, <<"m", "o", "r", "e", " ", "a", "b", "o", "u", "t", " ", "m", "a", "i", "n">>, <<"m", "a", "i", "n">>, <<"w", "a", "t">>, <<"w", "h", "a", "t">>,
      <<"z", "z", "z">>, <<"f", "a", "q">>, <<"e", "x", "a", "m", "p", "l", "e", "s">>, <<>> }

UserAnswers == { <<"w", "e", " ", "d", "o">>, <<"n", "o", "t", "h", "i", "n", "g", " ", " ", "h", "e", "r", "e">>, <<>> }

\* how the generation service can behave when asked for an answer
AnswerOutcomes ==
    { [kind |-> "raise", s |-> <<>>],
      [kind |-> "notext", s |-> <<>>],
      [kind |-> "text", s |-> <<>>],
      [kind |-> "text", s |-> <<" ", "*", "*", " ", "\n">>],
      [kind |-> "text", s |-> <<"*", " ", "*">>],
      [kind |-> "text", s |-> <<" ", "*", "*", "W", "e", " ", "d", "o", "*", "*", " ", "s", "k", "i", "n", " ", "c", "a", "r", "e", ".", "\n">>] }

\* how it can behave when asked for quiz questions
QuestionOutcomes ==
    { [kind |-> "raise", s |-> <<>>],
      [kind |-> "notext", s |-> <<>>],
      [kind |-> "text", s |-> <<"H", "e", "r", "e", " ", "a", "r", "e", " ", "5", " ", "q", "u", "e", "s", "t", "i", "o", "n", "s", ":", " ", "[", ".", ".", ".", "]">>],
      [kind |-> "text", s |-> <<"[", "H", "o", "w", ",", " ", "W", "h", "a", "t">>],
      [kind |-> "text", s |-> <<"[", "\\", "\"", "H", "o", "w", " ", "a", "?", "\\", "\"", ",", " ", "\\", "\"", "W", "h", "a", "t", " ", "b", "?", "\\", "\"", ",", " ", "\\", "\"", "W", "h", "y", " ", "c", "?", "\\", "\"", ",", " ", "\\", "\"", "H", "o", "w", " ", "d", "?", "\\", "\"", ",", " ", "\\", "\"", "W", "h", "a", "t", " ", "e", "?", "\\", "\"", "]", "\n">>],
      [kind |-> "text", s |-> <<"[", "\\", "\"", "H", "o", "w", " ", "a", "?", "\\", "\"", ",", " ", "\\", "\"", "W", "h", "a", "t", " ", "b", "?", "\\", "\"", ",", " ", "\\", "\"", "W", "h", "y", " ", "c", "?", "\\", "\"", ",", " ", "\\", "\"", "H", "o", "w", " ", "d", "?", "\\", "\"", ",", " ", "\\", "\"", "W", "h", "a", "t", " ", "e", "?", "\\", "\"", ",", " ", "\\", "\"", "W", "h", "y", " ", "f", "?", "\\", "\"", "]">>],
      [kind |-> "text", s |-> <<"[", "\\", "\"", "H", "o", "w", " ", "a", "?", "\\", "\"", ",", " ", "\\", "\"", "W", "h", "a", "t", " ", "b", "?", "\\", "\"", "]">>],
      [kind |-> "text", s |-> <<" ", "[", "]", " ">>],
      [kind |-> "text", s |-> <<"[", "1", ",", " ", "2", ",", " ", "3", ",", " ", "4", ",", " ", "5", "]">>],
      [kind |-> "text", s |-> <<"[", "\\", "\"", "T", "e", "l", "l", " ", "m", "e", "\\", "\"", ",", " ", "\\", "\"", "W", "h", "o", "\\", "\"", ",", " ", "\\", "\"", "a", "\\", "\"", ",", " ", "\\", "\"", "b", "\\", "\"", ",", " ", "\\", "\"", "c", "\\", "\"", "]">>] }

Init ==
    /\ pc = "ready"
    /\ NormIdle
    /\ SearchIdle
    /\ ubik_info \in LoadedDocuments
    /\ RequestIdle

\* POST /api/chat with message text user_message (given as a string or as
\* the text field of an object)
ChatbotReply(user_message, outcome) ==
    /\ pc = "ready"
    /\ pc' = "done"
    /\ route' = "chat"
    /\ raw' = user_message
    /\ adapter' = outcome
    /\ \E r \in {chatbot_reply(ubik_info, user_message, outcome)} :
          /\ ga_calls' = r.ga_calls
          /\ searched' = r.searched
          /\ prompts' = r.prompts
          /\ response' = IF r.status = "ok"
                         THEN [NoResponse EXCEPT !.status = 200, !.reply = r.reply]
                         ELSE [NoResponse EXCEPT !.status = 500]
    /\ UNCHANGED <<normVars, ubik_info, searchVars>>

\* POST /api/evaluate with a question and the user's answer
EvaluateAnswer(question, user_answer, outcome) ==
    /\ pc = "ready"
    /\ pc' = "done"
    /\ route' = "evaluate"
    /\ raw' = question
    /\ adapter' = outcome
    /\ ga_calls' = 1
    /\ \E g \in {generate_answer(ubik_info, question, outcome)} :
          /\ searched' = g.searched
          /\ prompts' = g.prompts
          /\ response' =
               IF g.status = "ok"
               THEN [NoResponse EXCEPT
                       !.status = 200,
                       !.feedback = "Compare your answer with the correct information.",
                       !.score = Score(user_answer, g.reply),
                       !.reply = g.reply,
                       !.user_answer = user_answer]
               ELSE [NoResponse EXCEPT !.status = 500]
    /\ UNCHANGED <<normVars, ubik_info, searchVars>>

\* GET /api/questions
GetQuestions(outcome) ==
    /\ pc = "ready"
    /\ pc' = "done"
    /\ route' = "questions"
    /\ raw' = <<>>
    /\ adapter' = outcome
    /\ ga_calls' = 0
    /\ searched' = <<>>
    /\ prompts' = <<QuestionsPrompt(ubik_info)>>
    /\ response' = [NoResponse EXCEPT
                      !.status = 200,
                      !.questions = get_questions(ubik_info, outcome)]
    /\ UNCHANGED <<normVars, ubik_info, searchVars>>

Next ==
    \/ \E m \in Messages, o \in AnswerOutcomes : ChatbotReply(m, o)
    \/ \E q \in Messages, a \in UserAnswers, o \in AnswerOutcomes :
          EvaluateAnswer(q, a, o)
    \/ \E o \in QuestionOutcomes : GetQuestions(o)

Spec == Init /\ [][Next]_vars

TooBroad == 200

\* the request went through generate_answer and got its answer back
Answered == pc = "done" /\ ga_calls = 1 /\ response.status = 200

\* the reply generate_answer derives from the service's behaviour
AdapterDerived ==
    IF adapter.kind = "text" /\ Remove(Strip(adapter.s), "*") # <<>>
    THEN Remove(Strip(adapter.s), "*") ELSE Apology

\* C1: generate_answer returns the local answer only when it is non-empty
\* and shorter than 200 characters; otherwise it asks the service and
\* returns the service's reply or the apology.
C1_LocalOnlyIfShort ==
    Answered =>
        \E local \in {generate_answer_from_json(ubik_info, searched[1])} :
            IF local.kind = "str" /\ local.s # <<>> /\ Len(local.s) < TooBroad
            THEN response.reply = local.s /\ prompts = <<>>
            ELSE Len(prompts) = 1 /\ response.reply = AdapterDerived

\* C3: on the chat and the evaluate route the query searched and the query
\* put into the prompt are the normalised input, and the answer is the one
\* generate_answer gives for the normalised input.
C3_QueryNormalized ==
    (pc = "done" /\ ga_calls = 1) =>
        /\ \A i \in 1..Len(searched) : searched[i] = correct_spelling(raw)
        /\ \A i \in 1..Len(prompts) : prompts[i].query = correct_spelling(raw)
        /\ response.status = 200 =>
              response.reply =
                  generate_answer(ubik_info, correct_spelling(raw), adapter).reply

\* C4: when search_json finds no match for the query of a generate_answer
\* call, the call invokes generate_content exactly once.
C4_FallbackOnce ==
    (pc = "done" /\ ga_calls = 1 /\ search_json(ubik_info, searched[1]) = <<>>)
        => Len(prompts) = 1

\* no match, the service raised, and it was asked once
C4_Witness ==
    /\ pc = "done"
    /\ ga_calls = 1
    /\ search_json(ubik_info, searched[1]) = <<>>
    /\ adapter.kind = "raise"
    /\ Len(prompts) = 1
    /\ prompts[1].query = searched[1]

\* C5: when generate_answer fell back and the service raised or gave text
\* that is empty once stripped and cleared of '*', the caller gets the
\* apology as a normal reply.
C5_ApologyOnFailure ==
    (/\ pc = "done"
     /\ ga_calls = 1
     /\ Len(prompts) = 1
     /\ \/ adapter.kind # "text"
        \/ \A i \in 1..Len(Strip(adapter.s)) : Strip(adapter.s)[i] = "*")
        => response.status = 200 /\ response.reply = Apology

\* the evaluate route fell back and the service answered with asterisks only
C5_Witness ==
    /\ pc = "done"
    /\ route = "evaluate"
    /\ Len(prompts) = 1
    /\ adapter = [kind |-> "text", s |-> <<" ", "*", "*", " ", "\n">>]
    /\ response.status = 200
    /\ response.reply = Apology

\* C6: a chat message whose normalised lowercase text holds "ubik" and
\* "full form" or "meaning" gets the acronym reply, without a call of
\* generate_answer or of the service, also when it holds "more".
C6_FullFormFirst ==
    (/\ pc = "done"
     /\ route = "chat"
     /\ Contains(Lower(correct_spelling(raw)), <<"u", "b", "i", "k">>)
     /\ \/ Contains(Lower(correct_spelling(raw)), <<"f", "u", "l", "l", " ", "f", "o", "r", "m">>)
        \/ Contains(Lower(correct_spelling(raw)), <<"m", "e", "a", "n", "i", "n", "g">>))
        => /\ response.status = 200
           /\ response.reply = AcronymReply
           /\ ga_calls = 0
           /\ searched = <<>>
           /\ prompts = <<>>

\* a misspelt message that also asks for "more" gets the acronym reply
C6_Witness ==
    /\ pc = "done"
    /\ route = "chat"
    /\ raw = <<"u", "b", "e", "e", "k", " ", "m", "e", "a", "n", "i", "n", "g", " ", "m", "o", "r", "e">>
    /\ response.reply = AcronymReply
    /\ ga_calls = 0
    /\ prompts = <<>>

QuestionStarts == {<<"H", "o", "w">>, <<"W", "h", "a", "t">>, <<"W", "h", "y">>}

\* C7: whatever the service does, GET /api/questions answers with exactly 5
\* strings, each starting with How, What or Why.
C7_FiveQuestions ==
    (pc = "done" /\ route = "questions") =>
        /\ Len(response.questions) = 5
        /\ \A i \in 1..Len(response.questions) :
              /\ response.questions[i].t = "text"
              /\ \E w \in QuestionStarts : StartsWith(response.questions[i].s, w)
====
